---- MODULE Spec2Model ----
(***************************************************************************)
(* The worker's commit-scoped build-and-benchmark pipeline                 *)
(* (memory_tracker_worker): benchmark_command with its pre-flight checks   *)
(* and its three processing modes (parallel batches over git worktrees,    *)
(* sequential, local checkout), process_commit, and the worktree           *)
(* lifecycle of process_commits_in_parallel.                               *)
(*                                                                         *)
(* A commit is its index 1..N in the list get_commits_to_process returns.  *)
(* One call of process_commit is two steps, the start (a worker picks the  *)
(* task) and the finish (the call returns); the stages the call ran in     *)
(* between, the directories it left behind and its return value are        *)
(* computed from the stage that failed by the operator ProcessCommit, as   *)
(* the code computes them.  The stages touch only directories private to   *)
(* the commit, so nothing another thread can observe lies between them.    *)
(*                                                                         *)
(* Spec is the worker with the default --api-base; SpecFaulty is the       *)
(* worker on shorter commit ranges in an environment that injects one      *)
(* failure more; SpecRemote is the worker on shorter commit ranges with    *)
(* any --api-base; SpecService is the tracking service's POST              *)
(* /api/upload-run handler (backend/app/routers/upload.py) over its        *)
(* tables, one action per request.                                         *)
(***************************************************************************)
EXTENDS Naturals, Integers, Sequences, FiniteSets, TLC

\* ------------------------------------------------------------- bounds
MaxCommits == 3
MaxWorkers == 2
MaxBatch == 3
\* failures the environment injects per run: failing stages of a commit,
\* failing git worktree commands
MaxFaults == 1
\* commits whose output directory exists before the run: the first or the
\* last ones of the list, up to this many
MaxExisting == 1
\* requests the tracking service handles, and the seconds its clock runs
MaxUploads == 3
MaxClock == 1

\* ------------------------------------------------------------- values
\* args.batch_size is None (not given), or <<b>> for the integer b
NoBatch == <<>>

\* what the tracking service answers to a GET: the HTTP status
Statuses == {"200", "404", "500"}

\* what fails in one call of process_commit: "none", one of its stages, or
\* ("cleanup") the removal of the build directory in its finally block
Faults == {"none", "checkout", "rmtree", "configure", "make", "install",
           "venv", "pip", "validate", "benchmarks", "upload", "cleanup"}

\* the toolchain stages: a non-zero exit raises CalledProcessError
ToolchainFaults == {"configure", "make", "install", "venv", "pip"}

\* files of an output directory: those of an earlier run, those of this run
PriorFiles == {"prior"}
BenchmarkFiles == {"metadata.json", "stats.json", "flamegraph.html", "trace.bin"}

AbsentDir == [exists |-> FALSE, files |-> {}]
PriorDir == [exists |-> TRUE, files |-> PriorFiles]

\* the pre-flight checks of benchmark_command that end in sys.exit(1)
PreflightChecks == <<"prerequisites", "repository", "commit_range",
                     "output_directory", "build_environment">>

Min(a, b) == IF a < b THEN a ELSE b

\* --api-base: its default, which is also the default of the server_url
\* parameter of the functions in benchmarks/__init__.py, and another server
DefaultServer == "http://localhost:8000"
ApiBases == {DefaultServer, "https://memory.python.org"}

\* the server a request goes to, for --api-base base: the pre-flight
\* validation and the upload pass it on, the validation inside process_commit
\* and process_commits_local_checkout is called without server_url
PreflightServer(base) == base
CommitValidationServer(base) == DefaultServer
UploadServer(base) == base

\* ------------------------------------------------------------- tracking service: values
\* commit shas of upload requests: sequences of characters, the empty one
\* when the metadata has no commit.hexsha
Sha8Len == 8
Sha(ch) == [j \in 1..(Sha8Len + 1) |-> ch]
Shas == {Sha("a"), Sha("b")}
NoSha == <<>>

\* commit_sha[:8]
Sha8(sha) == SubSeq(sha, 1, Min(Sha8Len, Len(sha)))

\* the binaries and environments of the database, and a name not registered
RegisteredFlags == [default |-> {"--with-pydebug"}]
Binaries == DOMAIN RegisteredFlags
Environments == {"linux", "macos"}
Unknown == "ghost"

\* CONFIG_ARGS of an upload, split: none, or more than the registered flags
UploadedFlags == {{}, {"--with-pydebug", "--with-lto"}}

\* benchmark names, as sequences of characters, and the benchmark_results
\* lists of an upload request
BenchmarkLists ==
    {<<>>, <<<<"l", "_", "o">>>>, <<<<"d", "_", "o">>, <<"d", "-", "o">>>>}

\* the upload requests: those that pass the checks of the handler, and one
\* that fails each check (no commit sha, an unknown binary, an unknown
\* environment, configure flags without the registered ones)
ValidRequests ==
    [sha : Shas, binary_id : Binaries, environment_id : Environments,
     flags : UploadedFlags \ {{}}, names : BenchmarkLists]

Requests ==
    LET v == CHOOSE r \in ValidRequests : r.names = <<>> /\ r.environment_id = "linux"
                                           /\ r.sha = Sha("a")
    IN  ValidRequests \cup {[v EXCEPT !.sha = NoSha], [v EXCEPT !.binary_id = Unknown],
                            [v EXCEPT !.environment_id = Unknown],
                            [v EXCEPT !.flags = {}]}

\* benchmark_name.replace('_', '-')
ReplaceUnderscore(name) == [j \in DOMAIN name |-> IF name[j] = "_" THEN "-" ELSE name[j]]

\* cleanup_old_flamegraphs_if_needed(db, environment_id, max_flamegraphs=100)
max_flamegraphs == 100

\* the rows the loop over upload_data.benchmark_results adds to table, one
\* commit per row, from the j-th name on; a row whose id is taken raises
\* IntegrityError and ends the loop, the rows before it stay
RECURSIVE CreateBenchmarkResults(_, _, _, _)
CreateBenchmarkResults(run_id, names, j, table) ==
    IF j > Len(names)
    THEN [table |-> table, created |-> j - 1, error |-> FALSE]
    ELSE LET id == <<run_id, ReplaceUnderscore(names[j])>>
         IN  IF \E r \in table : r.id = id
             THEN [table |-> table, created |-> j - 1, error |-> TRUE]
             ELSE CreateBenchmarkResults(run_id, names, j + 1,
                    table \cup {[id |-> id, run_id |-> run_id,
                                 benchmark_name |-> names[j], flamegraph_html |-> TRUE]})

\* the run_ids cleanup_old_flamegraphs_if_needed keeps: the newest
\* max_flamegraphs runs of the environment
KeepRunIds(runsNow, environment_id) ==
    LET envRuns == {r \in runsNow : r.environment_id = environment_id}
        keep == IF Cardinality(envRuns) <= max_flamegraphs THEN envRuns
                ELSE CHOOSE K \in SUBSET envRuns :
                       /\ Cardinality(K) = max_flamegraphs
                       /\ \A a \in K : \A b \in envRuns \ K : a.timestamp > b.timestamp
    IN  {r.run_id : r \in keep}

\* cleanup_old_flamegraphs_if_needed: flamegraph_html = NULL for the rows
\* whose run_id is not among the kept ones
CleanupOldFlamegraphs(table, runsNow, environment_id) ==
    LET keep_run_ids == KeepRunIds(runsNow, environment_id)
    IN  IF keep_run_ids = {} THEN table
        ELSE {IF r.run_id \notin keep_run_ids
              THEN [r EXCEPT !.flamegraph_html = FALSE] ELSE r : r \in table}

\* no request handled yet
NoRequest == [sha |-> NoSha, binary_id |-> Unknown, environment_id |-> Unknown,
              flags |-> {}, duplicate |-> FALSE, status |-> "none", runs_created |-> 0,
              results_created |-> 0]

\* ------------------------------------------------------------- process_commit
\* what one call of process_commit leaves behind: its return value, the
\* stages it started, the stage that failed, the commit's output directory,
\* build directory and venv directory, and what the upload raised
Outcome(err, trace, failed, out, build, venv, upload) ==
    [err |-> err, trace |-> trace, failed |-> failed, out |-> out,
     build |-> build, venv |-> venv, upload |-> upload]

NoOutcome == Outcome("pending", <<>>, "none", AbsentDir, "none", "none", "none")

\* shutil.rmtree(run_dir)
Rmtree(dir) == AbsentDir

\* run_dir.mkdir(parents=True, exist_ok=True)
Mkdir(dir) == [exists |-> TRUE, files |-> dir.files]

\* mutant: the existence check is skipped, the run always overwrites
RefusesExistingNever(dir, force) == FALSE

\* if run_dir.exists(): if not force: return error_msg
RefusesExisting(dir, force) == dir.exists /\ ~force

\* mutant: mkdir(exist_ok=True) on the existing directory, without rmtree
PrepareRunDirKeep(dir) == Mkdir(dir)

\* the run directory the stages write to: an existing one is removed first
PrepareRunDir(dir) == Mkdir(IF dir.exists THEN Rmtree(dir) ELSE dir)

\* run_benchmarks: metadata.json first, then the three artifacts per benchmark
RunBenchmarks(out, ok) ==
    [out EXCEPT !.files = IF ok THEN @ \cup BenchmarkFiles
                          ELSE @ \cup {"metadata.json"}]

\* upload_results_to_server: "ok", or the ValueError it raises on a rejection
UploadResultsToServer(fault) ==
    IF fault = "upload" THEN "Upload failed: detail" ELSE "ok"

\* except Exception as e: logger.warning(...) around the upload; then
\* "Successfully completed", return None
AfterUpload(uploaded) == "None"

\* mutant: the output directory of a commit whose upload failed is removed
ResultsAfterUploadDropFailed(out, up) == IF up = "ok" THEN out ELSE Rmtree(out)

\* the output directory after the upload: upload_results_to_server only reads
\* the files, and after a failure "Results are still saved locally": nothing
\* touches run_dir
ResultsAfterUpload(out, up) == out

\* process_commit, the second try: make .. upload
BuildAndBenchmark(trace, out, fault) ==
    LET t2 == trace \o <<"make">>
        t3 == t2 \o <<"install">>
        t4 == t3 \o <<"venv">>
        t5 == t4 \o <<"pip">>
        t6 == t5 \o <<"validate">>
        t7 == t6 \o <<"benchmarks">>
        t8 == t7 \o <<"upload">>
        up == UploadResultsToServer(fault)
    IN  IF fault = "make"
        THEN Outcome("Error processing commit", t2, fault, out, "removed", "none", "none")
        ELSE IF fault = "install"
        THEN Outcome("Error processing commit", t3, fault, out, "removed", "none", "none")
        ELSE IF fault = "venv"
        THEN Outcome("Error processing commit", t4, fault, out, "removed", "live", "none")
        ELSE IF fault = "pip"
        THEN Outcome("Error processing commit", t5, fault, out, "removed", "live", "none")
        ELSE IF fault = "validate"
        THEN Outcome("Validation failed", t6, fault, out, "removed", "live", "none")
        ELSE IF fault = "benchmarks"
        THEN Outcome("Error processing commit", t7, fault, RunBenchmarks(out, FALSE),
                     "removed", "live", "none")
        ELSE Outcome(AfterUpload(up), t8, IF up # "ok" THEN "upload" ELSE "none",
                     ResultsAfterUpload(RunBenchmarks(out, TRUE), up), "removed", "live", up)

\* mutant: process_commit without its except Exception clause: the
\* GitCommandError of the checkout leaves the function
ProcessCommitNoCatchAll(dir, force, hasGit, fault) ==
    LET t0 == IF hasGit THEN <<"checkout">> ELSE <<>>
    IN  IF hasGit /\ fault = "checkout"
        THEN Outcome("raised", t0, fault, dir, "none", "none", "none")
        ELSE IF RefusesExisting(dir, force)
        THEN Outcome("already exists", t0, "none", dir, "none", "none", "none")
        ELSE IF dir.exists /\ fault = "rmtree"
        THEN Outcome("Failed to remove existing directory", t0 \o <<"rmtree">>, fault,
                     dir, "none", "none", "none")
        ELSE LET t1 == t0 \o (IF dir.exists THEN <<"rmtree">> ELSE <<>>)
                          \o <<"mkdir", "configure">>
                 out == PrepareRunDir(dir)
             IN  IF fault = "configure"
                 THEN Outcome("Error configuring commit", t1, fault, out, "removed", "none", "none")
                 ELSE BuildAndBenchmark(t1, out, fault)

\* process_commit(commit, ...): dir is the commit's output directory before
\* the call, hasGit whether repo_path/.git exists
ProcessCommit(dir, force, hasGit, fault) ==
    LET t0 == IF hasGit THEN <<"checkout">> ELSE <<>>
    IN  IF hasGit /\ fault = "checkout"
        THEN Outcome("Unexpected error", t0, fault, dir, "none", "none", "none")
        ELSE IF RefusesExisting(dir, force)
        THEN Outcome("already exists", t0, "none", dir, "none", "none", "none")
        ELSE IF dir.exists /\ fault = "rmtree"
        THEN Outcome("Failed to remove existing directory", t0 \o <<"rmtree">>, fault,
                     dir, "none", "none", "none")
        ELSE LET t1 == t0 \o (IF dir.exists THEN <<"rmtree">> ELSE <<>>)
                          \o <<"mkdir", "configure">>
                 out == PrepareRunDir(dir)
             IN  IF fault = "configure"
                 THEN Outcome("Error configuring commit", t1, fault, out, "removed", "none", "none")
                 ELSE BuildAndBenchmark(t1, out, fault)

\* mutant: the build directory is removed at the end of the try block, not in
\* a finally block: a call that returns an error leaves it
FinallyOnSuccess(o, cleaned) ==
    IF o.build = "removed" /\ (~cleaned \/ o.err # "None")
    THEN [o EXCEPT !.build = "live"] ELSE o

\* the finally block of process_commit: shutil.rmtree(build_dir,
\* ignore_errors=True) for a build directory that was created; what it cannot
\* remove stays, and the return value is the one of the try block
Finally(o, cleaned) ==
    IF o.build = "removed" /\ ~cleaned THEN [o EXCEPT !.build = "live"] ELSE o

\* the body of the for loop of process_commits_local_checkout for one commit;
\* every error ends the loop: the function returns it
LocalCommit(dir, force, fault) ==
    LET t0 == <<"checkout">>
    IN  IF fault = "checkout"
        THEN Outcome("Unexpected error in local checkout mode", t0, fault, dir,
                     "none", "none", "none")
        ELSE IF RefusesExisting(dir, force)
        THEN Outcome("already exists", t0, "none", dir, "none", "none", "none")
        ELSE IF dir.exists /\ fault = "rmtree"
        THEN Outcome("Failed to remove existing directory", t0 \o <<"rmtree">>, fault,
                     dir, "none", "none", "none")
        ELSE LET t1 == t0 \o (IF dir.exists THEN <<"rmtree">> ELSE <<>>) \o <<"mkdir", "make">>
                 t2 == t1 \o <<"venv">>
                 t3 == t2 \o <<"pip">>
                 t4 == t3 \o <<"validate">>
                 t5 == t4 \o <<"benchmarks">>
                 t6 == t5 \o <<"upload">>
                 out == PrepareRunDir(dir)
                 up == UploadResultsToServer(fault)
             IN  IF fault = "make"
                 THEN Outcome("Error processing commit", t1, fault, out, "none", "none", "none")
                 ELSE IF fault = "venv"
                 THEN Outcome("Error processing commit", t2, fault, out, "none", "live", "none")
                 ELSE IF fault = "pip"
                 THEN Outcome("Error processing commit", t3, fault, out, "none", "live", "none")
                 ELSE IF fault = "validate"
                 THEN Outcome("Validation failed", t4, fault, out, "none", "live", "none")
                 ELSE IF fault = "benchmarks"
                 THEN Outcome("Error processing commit", t5, fault, RunBenchmarks(out, FALSE),
                              "none", "live", "none")
                 ELSE Outcome(AfterUpload(up), t6,
                              IF up # "ok" THEN "upload" ELSE "none",
                              ResultsAfterUpload(RunBenchmarks(out, TRUE), up),
                              "none", "removed", up)

\* the stages of the loop body: configure runs once, make install never
LocalFaults == Faults \ {"configure", "install", "cleanup"}

VARIABLES
    pc,          \* where benchmark_command is
    check,       \* index of the next pre-flight check
    validation,  \* what the tracking service answered to the pre-flight GETs
    max_workers, batch_size, local_checkout, force, api_base,   \* args
    N,           \* number of commits of the commit range
    outDir,      \* per commit: its output directory
    prior,       \* per commit: its output directory before the run
    st,          \* per commit: "idle", "queued", "running", "collected"
    res,         \* per commit: the Outcome of its processing
    budget,      \* failures the environment may inject in this run
    faults,      \* failures the environment injected so far
    broken,      \* the stage that fails in this run's environment, once one failed
    cur,         \* sequential modes: the commit the for loop is at
    i,           \* parallel mode: first commit of the current batch
    worktrees,   \* parallel mode: commits of the batch whose worktree was created
    wt,          \* per commit: its worktree, "none", "live" or "removed"
    wtRoot,      \* per commit: whether the mkdtemp directory holding the worktree exists
    wtPath,      \* per commit: the name mkdtemp gave that directory, 0 before
    removes,     \* per commit: the outcomes of the git worktree remove calls on its worktree
    k,           \* parallel mode: worktrees the finally block has gone through
    raising,     \* parallel mode: an exception is propagating out of the batch
    poolRaised,  \* parallel mode: that exception was raised inside the with block of the pool
    batch_results, all_results,
    errors,      \* the errors list of benchmark_command
    summary,     \* the lines of the final summary
    exitStatus,  \* "running", or the status the process ended with
    clock,       \* tracking service: int(datetime.now().timestamp())
    served,      \* tracking service: upload requests handled so far
    commits,     \* table commits: the shas
    runs,        \* table runs
    benchmark_results,   \* table benchmark_results
    last         \* the last upload request, its response and what it created

vars == <<pc, check, validation, max_workers, batch_size, local_checkout, force, api_base, N,
          outDir,
          prior, st, res, budget, faults, broken, cur, i, worktrees, wt, wtRoot, wtPath, removes, k,
          raising, poolRaised,
          batch_results, all_results, errors, summary, exitStatus, clock, served, commits,
          runs, benchmark_results, last>>

\* the state of the worker
workerVars == <<pc, check, validation, max_workers, batch_size, local_checkout, force,
                api_base, N,
                outDir, prior, st, res, budget, faults, broken, cur, i, worktrees, wt,
                wtRoot, wtPath, removes, k, raising, poolRaised, batch_results,
                all_results, errors,
                summary, exitStatus>>

\* the state of the tracking service
serviceVars == <<clock, served, commits, runs, benchmark_results, last>>

argVars == <<validation, max_workers, local_checkout, force, api_base, N, prior, budget,
            serviceVars>>
commitVars == <<outDir, st, res, faults, broken>>
seqVars == <<cur>>
parVars == <<i, worktrees, wt, wtRoot, wtPath, removes, k, raising, poolRaised, batch_results,
            all_results>>
endVars == <<errors, summary, exitStatus>>

Commits == 1..N

\* the commits whose output directory exists before the run
Existing(dirs) == {c \in DOMAIN dirs : dirs[c].exists}

\* the tracking service with its tables created and nothing uploaded
ServiceStart ==
    /\ clock = 0
    /\ served = 0
    /\ commits = {}
    /\ runs = {}
    /\ benchmark_results = {}
    /\ last = NoRequest

\* the state benchmark_command starts in, for a commit range of up to n
\* commits and an environment that injects up to f failures
Start(n, f) ==
    /\ pc = "preflight"
    /\ check = 1
    /\ validation = [binary |-> "unasked", environment |-> "unasked"]
    /\ max_workers \in 0..MaxWorkers
    /\ batch_size \in {NoBatch} \cup {<<b>> : b \in 0..MaxBatch}
    /\ local_checkout \in BOOLEAN
    /\ force \in BOOLEAN
    /\ N \in 1..n
    /\ outDir \in [1..N -> {AbsentDir, PriorDir}]
    /\ \E e \in 0..Min(MaxExisting, N) :
          Existing(outDir) \in {1..e, (N - e + 1)..N}
    /\ prior = outDir
    /\ st = [c \in 1..N |-> "idle"]
    /\ res = [c \in 1..N |-> NoOutcome]
    /\ budget = f
    /\ faults = 0
    /\ broken = "none"
    /\ cur = 1
    /\ i = 1
    /\ worktrees = <<>>
    /\ wt = [c \in 1..N |-> "none"]
    /\ wtRoot = [c \in 1..N |-> FALSE]
    /\ wtPath = [c \in 1..N |-> 0]
    /\ removes = [c \in 1..N |-> <<>>]
    /\ k = 0
    /\ raising = FALSE
    /\ poolRaised = FALSE
    /\ batch_results = <<>>
    /\ all_results = <<>>
    /\ errors = <<>>
    /\ summary = <<>>
    /\ exitStatus = "running"
    /\ ServiceStart

\* a run with the default --api-base
Init == Start(MaxCommits, MaxFaults) /\ api_base = DefaultServer

\* shorter commit ranges in an environment that injects one failure more
InitFaulty == Start(MaxCommits - 1, MaxFaults + 1) /\ api_base = DefaultServer

\* shorter commit ranges, with any --api-base
InitRemote == Start(MaxCommits - 1, MaxFaults) /\ api_base \in ApiBases

\* sys.exit(code), or the interpreter ending after main() returned or raised
Exit(code) ==
    /\ pc' = "exited"
    /\ exitStatus' = code

\* ------------------------------------------------------------- pre-flight
\* check_prerequisites, git.Repo / clone_from, validate_commit_range,
\* check_output_directory, check_build_environment: each ends the run with
\* sys.exit(1) when it fails
PreflightCheck ==
    /\ pc = "preflight"
    /\ \E ok \in BOOLEAN :
         IF ~ok THEN Exit("1") /\ UNCHANGED check
         ELSE IF check < Len(PreflightChecks)
         THEN check' = check + 1 /\ UNCHANGED <<pc, exitStatus>>
         ELSE pc' = "validate" /\ UNCHANGED <<check, exitStatus>>
    /\ UNCHANGED <<argVars, batch_size, commitVars, seqVars, parVars, errors, summary>>

\* validate_binary_and_environment: "ok", or the ValueError it raises
ValidateBinaryAndEnvironment(binaryStatus, envStatus) ==
    IF binaryStatus = "404" THEN "Binary not found on server"
    ELSE IF binaryStatus # "200" THEN "Failed to validate binary and environment"
    ELSE IF envStatus = "404" THEN "Environment not found on server"
    ELSE IF envStatus # "200" THEN "Failed to validate binary and environment"
    ELSE "ok"

\* mutant: the ValueError of the pre-flight validation is logged, the run goes on
PreflightValidateWarnOnly ==
    /\ pc = "validate"
    /\ \E binaryStatus \in Statuses, envStatus \in Statuses :
         validation' = [binary |-> binaryStatus,
                        environment |-> IF binaryStatus = "200" THEN envStatus
                                        ELSE "unasked"]
    /\ pc' = "get_commits"
    /\ UNCHANGED <<check, max_workers, local_checkout, force, api_base, N, prior, budget,
                   serviceVars,
                   batch_size,
                   commitVars, seqVars, parVars, errors, summary, exitStatus>>

PreflightValidate ==
    /\ pc = "validate"
    /\ \E binaryStatus \in Statuses, envStatus \in Statuses :
         /\ validation' = [binary |-> binaryStatus,
                           environment |-> IF binaryStatus = "200" THEN envStatus
                                           ELSE "unasked"]
         /\ IF ValidateBinaryAndEnvironment(binaryStatus, envStatus) # "ok"
            THEN Exit("1")
            ELSE pc' = "get_commits" /\ UNCHANGED exitStatus
    /\ UNCHANGED <<check, max_workers, local_checkout, force, api_base, N, prior, budget,
                   serviceVars,
                   batch_size,
                   commitVars, seqVars, parVars, errors, summary>>

\* get_commits_to_process: a ValueError ends the run
GetCommits ==
    /\ pc = "get_commits"
    /\ \E ok \in BOOLEAN :
         IF ok THEN pc' = "args" /\ UNCHANGED exitStatus ELSE Exit("1")
    /\ UNCHANGED <<check, argVars, batch_size, commitVars, seqVars, parVars, errors, summary>>

\* the checks of --local-checkout, --max-workers and --batch-size
ValidateArgs ==
    /\ pc = "args"
    /\ IF local_checkout /\ max_workers > 1 THEN Exit("1") /\ UNCHANGED batch_size
       ELSE IF max_workers < 1 THEN Exit("1") /\ UNCHANGED batch_size
       ELSE IF batch_size = NoBatch
       THEN batch_size' = <<max_workers>> /\ pc' = "auth" /\ UNCHANGED exitStatus
       ELSE IF batch_size[1] < 1 THEN Exit("1") /\ UNCHANGED batch_size
       ELSE pc' = "auth" /\ UNCHANGED <<batch_size, exitStatus>>
    /\ UNCHANGED <<check, argVars, commitVars, seqVars, parVars, errors, summary>>

\* the token of --auth-token or MEMORY_TRACKER_TOKEN, then the choice of the mode
GetAuthToken ==
    /\ pc = "auth"
    /\ \E token \in BOOLEAN :
         IF ~token THEN Exit("1")
         ELSE /\ pc' = IF max_workers > 1 THEN "par_create"
                       ELSE IF local_checkout THEN "local_clean" ELSE "seq"
              /\ UNCHANGED exitStatus
    /\ UNCHANGED <<check, argVars, batch_size, commitVars, seqVars, parVars, errors, summary>>

\* ------------------------------------------------------------- sequential mode
\* one failure more is within the budget
MayFail == faults < budget
Oks == IF MayFail THEN BOOLEAN ELSE {TRUE}

\* the stage that fails in one call: the failures of one run are those of one
\* stage (a broken toolchain step, a service that rejects), hitting any of
\* the commits
FaultChoices ==
    IF ~MayFail THEN {"none"}
    ELSE IF broken = "none" THEN Faults
    ELSE {"none", broken}

\* the stage that fails in this run, after a call with outcome o
Broken(o) ==
    IF broken # "none" THEN broken
    ELSE IF o.build = "live" THEN "cleanup" ELSE o.failed

\* the failures so far, with those of the call: a stage that failed, a build
\* directory that could not be removed
Count(o) ==
    faults + (IF o.failed = "none" THEN 0 ELSE 1) + (IF o.build = "live" THEN 1 ELSE 0)

\* for commit in commits: error = process_commit(commit, repo_path, ...)
SeqStart ==
    /\ pc = "seq" /\ cur <= N /\ st[cur] = "idle"
    /\ st' = [st EXCEPT ![cur] = "running"]
    /\ UNCHANGED <<pc, check, argVars, batch_size, outDir, res, faults, broken, seqVars, parVars, endVars>>

\* mutant: errors.insert(0, (commit, error)) instead of errors.append(...)
SeqFinishInsert ==
    /\ pc = "seq" /\ cur <= N /\ st[cur] = "running"
    /\ \E fault \in FaultChoices :
         LET o == ProcessCommit(outDir[cur], force, TRUE, fault)
         IN  /\ res' = [res EXCEPT ![cur] = o]
             /\ outDir' = [outDir EXCEPT ![cur] = o.out]
             /\ faults' = Count(o)
             /\ broken' = Broken(o)
             /\ errors' = IF o.err # "None" THEN <<<<cur, o.err>>>> \o errors ELSE errors
    /\ st' = [st EXCEPT ![cur] = "collected"]
    /\ cur' = cur + 1
    /\ UNCHANGED <<pc, check, argVars, batch_size, parVars, summary, exitStatus>>

SeqFinish ==
    /\ pc = "seq" /\ cur <= N /\ st[cur] = "running"
    /\ \E fault \in FaultChoices :
         LET o == Finally(ProcessCommit(outDir[cur], force, TRUE, fault), fault # "cleanup")
         IN  /\ res' = [res EXCEPT ![cur] = o]
             /\ outDir' = [outDir EXCEPT ![cur] = o.out]
             /\ faults' = Count(o)
             /\ broken' = Broken(o)
             /\ errors' = IF o.err # "None" THEN Append(errors, <<cur, o.err>>) ELSE errors
    /\ st' = [st EXCEPT ![cur] = "collected"]
    /\ cur' = cur + 1
    /\ UNCHANGED <<pc, check, argVars, batch_size, parVars, summary, exitStatus>>

SeqEnd ==
    /\ pc = "seq" /\ cur > N
    /\ pc' = "summary"
    /\ UNCHANGED <<check, argVars, batch_size, commitVars, seqVars, parVars, endVars>>

\* ------------------------------------------------------------- parallel mode
\* batch = commits[i:i + batch_size]
BatchLast == Min(i + batch_size[1] - 1, N)
Batch == i..BatchLast
BatchLen == BatchLast - i + 1

\* ThreadPoolExecutor(max_workers=min(max_workers, len(batch)))
PoolSize == Min(max_workers, BatchLen)

Running == {c \in Commits : st[c] = "running"}
Queued == {c \in Commits : st[c] = "queued"}

\* tempfile.mkdtemp(prefix='cpython_worktree_'): a name no existing directory
\* has; of these the least one, which takes up a name again as soon as its
\* directory is gone
Mkdtemp ==
    LET free == (1..N) \ {wtPath[d] : d \in {e \in Commits : wtRoot[e]}}
    IN  CHOOSE n \in free : \A m \in free : n <= m

\* copy_repo_to_worktree for the next commit of the batch: mkdtemp, then
\* git worktree add; when that raises, the finally block of the batch runs
\* and the exception leaves process_commits_in_parallel
CreateWorktree ==
    /\ pc = "par_create" /\ i <= N /\ Len(worktrees) < BatchLen
    /\ LET c == i + Len(worktrees)
       IN  \E ok \in Oks :
             /\ wtRoot' = [wtRoot EXCEPT ![c] = TRUE]
             /\ wtPath' = [wtPath EXCEPT ![c] = Mkdtemp]
             /\ IF ok
                THEN /\ wt' = [wt EXCEPT ![c] = "live"]
                     /\ worktrees' = Append(worktrees, c)
                     /\ UNCHANGED <<pc, raising, faults>>
                ELSE /\ raising' = TRUE
                     /\ pc' = "par_cleanup"
                     /\ faults' = faults + 1
                     /\ UNCHANGED <<wt, worktrees>>
    /\ UNCHANGED <<check, argVars, batch_size, outDir, st, res, broken, seqVars, i, k,
                   removes, poolRaised, batch_results, all_results, endVars>>

\* executor.submit(process_commit, commit, worktree_path, ...) for the batch:
\* each submit starts a worker thread until the pool has PoolSize of them, so
\* the first PoolSize tasks run and the others wait in the queue.  A submit
\* that raises (no thread can be started) leaves the n tasks submitted before
\* it in the pool and the with block; batch_results = [] is not reached
Submit ==
    /\ pc = "par_create" /\ i <= N /\ Len(worktrees) = BatchLen
    /\ \E n \in (IF MayFail THEN 0..BatchLen ELSE {BatchLen}) :
         /\ st' = [c \in Commits |-> IF c \notin Batch \/ c >= i + n THEN st[c]
                                     ELSE IF c < i + PoolSize THEN "running" ELSE "queued"]
         /\ IF n = BatchLen
            THEN /\ batch_results' = <<>>
                 /\ pc' = "par_pool"
                 /\ UNCHANGED <<raising, poolRaised, faults>>
            ELSE /\ raising' = TRUE
                 /\ poolRaised' = TRUE
                 /\ faults' = faults + 1
                 /\ pc' = "par_wait"
                 /\ UNCHANGED batch_results
    /\ UNCHANGED <<check, argVars, batch_size, outDir, res, broken, seqVars, i,
                   worktrees, wt, wtRoot, wtPath, removes, k, all_results, endVars>>

\* the worker that finished commit c takes the oldest queued task, if any
NextTask(c) ==
    IF Queued = {} THEN [st EXCEPT ![c] = "collected"]
    ELSE LET q == CHOOSE q \in Queued : \A r \in Queued : q <= r
         IN  [st EXCEPT ![c] = "collected", ![q] = "running"]

\* process_commit returns in a worker: the future is done, as_completed hands
\* it to the collecting loop, batch_results.append((commit, error)), and the
\* worker goes on with the next task of the queue.  After an exception in the
\* with block nothing collects the future: the task is done, no more
WorkerFinish(c) ==
    /\ pc \in {"par_pool", "par_wait"} /\ st[c] = "running"
    /\ \E fault \in FaultChoices :
         LET o == Finally(ProcessCommit(outDir[c], force, TRUE, fault), fault # "cleanup")
         IN  /\ res' = [res EXCEPT ![c] = o]
             /\ outDir' = [outDir EXCEPT ![c] = o.out]
             /\ faults' = Count(o)
             /\ broken' = Broken(o)
             /\ batch_results' = IF pc = "par_pool"
                                 THEN Append(batch_results, <<c, o.err>>)
                                 ELSE batch_results
    /\ st' = IF pc = "par_pool" THEN NextTask(c) ELSE [NextTask(c) EXCEPT ![c] = "done"]
    /\ UNCHANGED <<pc, check, argVars, batch_size, seqVars, i, worktrees, wt,
                   wtRoot, wtPath, removes, k, raising, poolRaised, all_results, endVars>>

\* an exception in the collecting loop, outside the try around
\* future.result(), while the first finished future is handled: it leaves the
\* loop and reaches the end of the with block
PoolRaise ==
    /\ pc = "par_pool" /\ MayFail /\ Len(batch_results) = 1
    /\ raising' = TRUE
    /\ poolRaised' = TRUE
    /\ faults' = faults + 1
    /\ pc' = "par_wait"
    /\ UNCHANGED <<check, argVars, batch_size, outDir, st, res, broken, seqVars, i,
                   worktrees, wt, wtRoot, wtPath, removes, k, batch_results, all_results,
                   endVars>>

\* mutant: the executor is shut down without waiting (shutdown(wait=False))
PoolWaitExitNoWait ==
    /\ pc = "par_wait"
    /\ pc' = "par_cleanup"
    /\ UNCHANGED <<check, argVars, batch_size, commitVars, seqVars, parVars, endVars>>

\* ThreadPoolExecutor.__exit__ with the exception on its way: shutdown(wait=
\* True) returns when every submitted task has run, then finally begins
PoolWaitExit ==
    /\ pc = "par_wait" /\ \A c \in Batch : st[c] \notin {"running", "queued"}
    /\ pc' = "par_cleanup"
    /\ UNCHANGED <<check, argVars, batch_size, commitVars, seqVars, parVars, endVars>>

\* mutant: the collecting loop stops at the first finished future and the
\* pool is left without waiting for the others
PoolExitEarly ==
    /\ pc = "par_pool" /\ \E c \in Batch : st[c] = "collected"
    /\ all_results' = all_results \o batch_results
    /\ pc' = "par_cleanup"
    /\ UNCHANGED <<check, argVars, batch_size, commitVars, seqVars, i, worktrees,
                   wt, wtRoot, wtPath, removes, k, raising, poolRaised, batch_results,
                   endVars>>

\* mutant: all_results = batch_results instead of all_results.extend(...)
PoolExitAssign ==
    /\ pc = "par_pool" /\ \A c \in Batch : st[c] = "collected"
    /\ all_results' = batch_results
    /\ pc' = "par_cleanup"
    /\ UNCHANGED <<check, argVars, batch_size, commitVars, seqVars, i, worktrees,
                   wt, wtRoot, wtPath, removes, k, raising, poolRaised, batch_results,
                   endVars>>

\* all_results.extend(batch_results), the with block ends, finally begins
PoolExit ==
    /\ pc = "par_pool" /\ \A c \in Batch : st[c] = "collected"
    /\ all_results' = all_results \o batch_results
    /\ pc' = "par_cleanup"
    /\ UNCHANGED <<check, argVars, batch_size, commitVars, seqVars, i, worktrees,
                   wt, wtRoot, wtPath, removes, k, raising, poolRaised, batch_results,
                   endVars>>

\* git worktree remove <path> --force: removes the worktree directory, not
\* the mkdtemp directory that holds it
GitWorktreeRemove(c, ok) ==
    /\ wt' = [wt EXCEPT ![c] = IF ok THEN "removed" ELSE @]
    /\ removes' = [removes EXCEPT ![c] = Append(@, IF ok THEN "ok" ELSE "failed")]
    /\ UNCHANGED <<wtRoot, wtPath>>

\* mutant: no try around git worktree remove: its exception ends the loop of
\* the finally block and leaves process_commits_in_parallel
RemoveWorktreeRaises ==
    /\ pc = "par_cleanup" /\ k < Len(worktrees)
    /\ \E ok \in Oks :
         /\ GitWorktreeRemove(worktrees[k + 1], ok)
         /\ faults' = IF ok THEN faults ELSE faults + 1
         /\ raising' = (raising \/ ~ok)
         /\ k' = IF ok THEN k + 1 ELSE Len(worktrees)
    /\ UNCHANGED <<pc, check, argVars, batch_size, outDir, st, res, broken, seqVars, i,
                   worktrees, poolRaised, batch_results, all_results, endVars>>

\* mutant: the worktree of a commit that reported an error is left alone
RemoveWorktreeOnSuccess ==
    /\ pc = "par_cleanup" /\ k < Len(worktrees)
    /\ IF res[worktrees[k + 1]].err = "None"
       THEN \E ok \in Oks :
              /\ GitWorktreeRemove(worktrees[k + 1], ok)
              /\ faults' = IF ok THEN faults ELSE faults + 1
       ELSE UNCHANGED <<wt, wtRoot, wtPath, removes, faults>>
    /\ k' = k + 1
    /\ UNCHANGED <<pc, check, argVars, batch_size, outDir, st, res, broken, seqVars, i,
                   worktrees, raising, poolRaised, batch_results, all_results, endVars>>

\* finally: one worktree of the batch; a failure is logged as a warning
RemoveWorktree ==
    /\ pc = "par_cleanup" /\ k < Len(worktrees)
    /\ \E ok \in Oks :
         /\ GitWorktreeRemove(worktrees[k + 1], ok)
         /\ faults' = IF ok THEN faults ELSE faults + 1
    /\ k' = k + 1
    /\ UNCHANGED <<pc, check, argVars, batch_size, outDir, st, res, broken, seqVars, i,
                   worktrees, raising, poolRaised, batch_results, all_results, endVars>>

\* mutant: the batch loop breaks after a batch that reported an error
CleanupEndStopOnError ==
    /\ pc = "par_cleanup" /\ k = Len(worktrees)
    /\ IF raising
       THEN Exit("1") /\ UNCHANGED <<i, worktrees, k>>
       ELSE /\ i' = IF \E j \in 1..Len(batch_results) : batch_results[j][2] # "None"
                    THEN N + 1 ELSE i + batch_size[1]
            /\ worktrees' = <<>>
            /\ k' = 0
            /\ pc' = "par_create"
            /\ UNCHANGED exitStatus
    /\ UNCHANGED <<check, argVars, batch_size, commitVars, seqVars, wt, wtRoot,
                   wtPath, removes,
                   raising, poolRaised, batch_results, all_results, errors, summary>>

\* the finally block is through: the exception goes on (nothing up to main()
\* catches it, the interpreter ends with status 1), or the next batch begins
CleanupEnd ==
    /\ pc = "par_cleanup" /\ k = Len(worktrees)
    /\ IF raising
       THEN Exit("1") /\ UNCHANGED <<i, worktrees, k>>
       ELSE /\ i' = i + batch_size[1]
            /\ worktrees' = <<>>
            /\ k' = 0
            /\ pc' = "par_create"
            /\ UNCHANGED exitStatus
    /\ UNCHANGED <<check, argVars, batch_size, commitVars, seqVars, wt, wtRoot,
                   wtPath, removes,
                   raising, poolRaised, batch_results, all_results, errors, summary>>

IsError(r) == r[2] # "None"

\* return all_results; errors = [(commit, error) ... if error is not None]
ParReturn ==
    /\ pc = "par_create" /\ i > N
    /\ errors' = SelectSeq(all_results, IsError)
    /\ pc' = "summary"
    /\ UNCHANGED <<check, argVars, batch_size, commitVars, seqVars, parVars,
                   summary, exitStatus>>

\* ------------------------------------------------------------- local checkout mode
\* git clean -fxd, then configure, once, before the loop; an exception of
\* either is caught by the outer except and returned as the error
LocalPrepare ==
    /\ pc \in {"local_clean", "local_configure"}
    /\ \E ok \in Oks :
         IF ok
         THEN /\ pc' = IF pc = "local_clean" THEN "local_configure" ELSE "local"
              /\ UNCHANGED <<errors, faults>>
         ELSE /\ errors' = <<<<0, "Unexpected error in local checkout mode">>>>
              /\ faults' = faults + 1
              /\ pc' = "summary"
    /\ UNCHANGED <<check, argVars, batch_size, outDir, st, res, broken, seqVars, parVars,
                   summary, exitStatus>>

LocalStart ==
    /\ pc = "local" /\ cur <= N /\ st[cur] = "idle"
    /\ st' = [st EXCEPT ![cur] = "running"]
    /\ UNCHANGED <<pc, check, argVars, batch_size, outDir, res, faults, broken, seqVars, parVars, endVars>>

\* the loop body ends: the next commit, or return error_msg; the caller
\* appends (None, error), written <<0, error>>
LocalFinish ==
    /\ pc = "local" /\ cur <= N /\ st[cur] = "running"
    /\ \E fault \in FaultChoices \cap LocalFaults :
         LET o == LocalCommit(outDir[cur], force, fault)
         IN  /\ res' = [res EXCEPT ![cur] = o]
             /\ outDir' = [outDir EXCEPT ![cur] = o.out]
             /\ faults' = Count(o)
             /\ broken' = Broken(o)
             /\ IF o.err # "None"
                THEN errors' = <<<<0, o.err>>>> /\ pc' = "summary"
                ELSE UNCHANGED <<errors, pc>>
    /\ st' = [st EXCEPT ![cur] = "collected"]
    /\ cur' = cur + 1
    /\ UNCHANGED <<check, argVars, batch_size, parVars, summary, exitStatus>>

\* the loop is through: return None
LocalEnd ==
    /\ pc = "local" /\ cur > N
    /\ pc' = "summary"
    /\ UNCHANGED <<check, argVars, batch_size, commitVars, seqVars, parVars, endVars>>

\* ------------------------------------------------------------- the end
\* "Failed <sha> - <error>" per error, or else "Success <sha>" per commit;
\* benchmark_command then returns and the process ends
FinalSummary ==
    /\ pc = "summary"
    /\ summary' = IF errors # <<>>
                  THEN [j \in 1..Len(errors) |-> <<"Failed", errors[j][1], errors[j][2]>>]
                  ELSE [c \in 1..N |-> <<"Success", c, "None">>]
    /\ Exit("0")
    /\ UNCHANGED <<check, argVars, batch_size, commitVars, seqVars, parVars, errors>>

\* ------------------------------------------------------------- tracking service
\* the response to a request and the record of it
Respond(req, status, runs_created, results_created) ==
    last' = [sha |-> req.sha, binary_id |-> req.binary_id,
             environment_id |-> req.environment_id, flags |-> req.flags,
             duplicate |-> \E r \in runs : /\ r.commit_sha = req.sha
                                            /\ r.binary_id = req.binary_id
                                            /\ r.environment_id = req.environment_id,
             status |-> status, runs_created |-> runs_created,
             results_created |-> results_created]

\* mutant: the configure flags of the upload are not compared with the
\* registered ones
RejectsFlagsUnchecked(sha, binary_id, environment_id, flags) ==
    \/ sha = NoSha
    \/ binary_id \notin Binaries
    \/ environment_id \notin Environments

\* POST /api/upload-run: the checks of the metadata, of the binary, of the
\* environment and of the configure flags, each answered with 400
Rejects(sha, binary_id, environment_id, flags) ==
    \/ sha = NoSha
    \/ binary_id \notin Binaries
    \/ environment_id \notin Environments
    \/ /\ RegisteredFlags[binary_id] # {}
       /\ ~(RegisteredFlags[binary_id] \subseteq flags)

\* upload_worker_run for one request, through to its response
UploadWorkerRun ==
    /\ served < MaxUploads
    /\ served' = served + 1
    /\ \E req \in Requests :
         LET sha == req.sha
             binary_id == req.binary_id
             environment_id == req.environment_id
         IN  IF Rejects(sha, binary_id, environment_id, req.flags)
             THEN /\ Respond(req, "400", 0, 0)
                  /\ UNCHANGED <<commits, runs, benchmark_results>>
             ELSE LET run_id == <<Sha8(sha), binary_id, environment_id, clock>>
                      run == [run_id |-> run_id, commit_sha |-> sha,
                              binary_id |-> binary_id,
                              environment_id |-> environment_id,
                              timestamp |-> served + 1]
                      made == CreateBenchmarkResults(run_id, req.names, 1,
                                                     benchmark_results)
                  IN  /\ commits' = commits \cup {sha}
                      /\ IF \E r \in runs : r.run_id = run_id
                         THEN \* IntegrityError of the primary key: not the message
                              \* of a constraint unique_commit_binary_env
                              /\ Respond(req, "500", 0, 0)
                              /\ UNCHANGED <<runs, benchmark_results>>
                         ELSE /\ runs' = runs \cup {run}
                              /\ IF made.error
                                 THEN /\ benchmark_results' = made.table
                                      /\ Respond(req, "500", 1, made.created)
                                 ELSE /\ benchmark_results' =
                                           CleanupOldFlamegraphs(made.table,
                                             runs \cup {run}, environment_id)
                                      /\ Respond(req, "200", 1, made.created)
    /\ UNCHANGED <<workerVars, clock>>

\* a second passes
Tick ==
    /\ clock < MaxClock
    /\ clock' = clock + 1
    /\ UNCHANGED <<workerVars, served, commits, runs, benchmark_results, last>>

\* ------------------------------------------------------------- properties
Finished(c) == res[c].err # "pending"
Failed(c) == Finished(c) /\ res[c].err # "None"

\* the stages that configure, build, benchmark or upload
WorkStages == {"configure", "make", "install", "venv", "pip", "benchmarks", "upload"}

Positions(trace, stages) == {j \in 1..Len(trace) : trace[j] \in stages}
Ran(c, stages) == Positions(res[c].trace, stages) # {}

\* benchmark_command got to its final summary and returned
Completed == pc = "exited" /\ summary # <<>>

ParallelMode == max_workers > 1

\* process_commits_in_parallel has returned its list
ParReturned == ParallelMode /\ (pc = "summary" \/ Completed)

EntriesOf(c, results) == {j \in 1..Len(results) : results[j][1] = c}

\* C1: when process_commits_in_parallel returns, its list has exactly one entry
\* per input commit, whichever stages failed; the only ways it does not return
\* are an exception of the worktree creation (a temporary directory without a
\* worktree is left) and one raised inside the with block of the pool.
C1_OneResultPerCommit ==
    /\ ParReturned =>
         /\ Len(all_results) = N
         /\ \A c \in Commits : Cardinality(EntriesOf(c, all_results)) = 1
    /\ raising => (poolRaised \/ \E c \in Commits : wtRoot[c] /\ wt[c] = "none")

C1_Witness ==
    /\ ParReturned /\ N = MaxCommits /\ batch_size[1] < N /\ Len(all_results) = N
    /\ \E c \in Commits : Failed(c)

\* C2: once a commit has failed, every commit of its batch still finishes
\* process_commit before the batch is torn down, and at the return every other
\* commit, of the same and of every later batch, was handed to process_commit
\* and has the entry (commit, its own result) in the list.
C2_FailureCancelsNothing ==
    ParallelMode =>
      \A c \in Commits : Failed(c) =>
        /\ (pc = "par_cleanup" /\ ~raising) =>
             \A d \in Batch : Finished(d) /\ Ran(d, {"checkout"})
        /\ ParReturned =>
             \A d \in Commits \ {c} :
               /\ Finished(d) /\ Ran(d, {"checkout"})
               /\ \E j \in 1..Len(all_results) : all_results[j] = <<d, res[d].err>>

C2_Witness ==
    /\ ParReturned /\ N = MaxCommits /\ batch_size[1] = N - 1
    /\ Failed(1) /\ \A d \in Commits \ {1} : res[d].err = "None"

\* a non-zero exit of configure, make, make install, venv or pip for commit c
ToolchainFailed(c) == res[c].failed \in ToolchainFaults

\* C3 (as claimed): in every mode, when the run is through, every commit after
\* one whose toolchain stage failed has been processed.
C3_ToolchainFailureIsLocal ==
    Completed =>
      \A c \in Commits : ToolchainFailed(c) =>
        \A d \in Commits : d > c => Finished(d)

\* C4 (as claimed): a commit whose upload the tracking service rejected has
\* the server's detail message as its error, not None.
C4_RejectedUploadFailsCommit ==
    \A c \in Commits :
      res[c].upload \notin {"none", "ok"} => res[c].err = res[c].upload

\* C5 (as claimed): the process ends with status zero exactly when every
\* commit succeeded; a failed commit or a failed pre-flight check gives a
\* non-zero status.
C5_ExitStatus ==
    pc = "exited" =>
      (exitStatus = "0" <=> \A c \in Commits : res[c].err = "None")

\* the tracking service answered 404 for the binary or for the environment
NotRegistered == validation.binary = "404" \/ validation.environment = "404"

\* C6: after a 404 for the binary or the environment in pre-flight the run is
\* over with status 1 and no commit was touched: process_commit was not
\* called, no worktree, temporary directory, build directory or output
\* directory was created.
C6_PreflightAborts ==
    NotRegistered =>
      /\ pc = "exited" /\ exitStatus = "1"
      /\ \A c \in Commits :
           /\ st[c] = "idle" /\ res[c] = NoOutcome
           /\ wt[c] = "none" /\ ~wtRoot[c]
           /\ outDir[c] = prior[c]

C6_Witness ==
    /\ validation.binary = "200" /\ validation.environment = "404"
    /\ pc = "exited" /\ max_workers > 1 /\ N = MaxCommits

\* C7 (as claimed): a commit whose output directory exists, without force,
\* always ends with the "already exists" error, ran no configure, build,
\* benchmark or upload stage, and its directory is as it was.
C7_ExistingAlwaysRefused ==
    \A c \in Commits : (prior[c].exists /\ ~force /\ Finished(c)) =>
      /\ res[c].err = "already exists"
      /\ ~Ran(c, WorkStages)
      /\ outDir[c] = prior[c]

\* C7 (amended): such a commit always fails, with the "already exists" error
\* unless its git checkout failed first (then with the error of the checkout);
\* it ran no configure, build, benchmark or upload stage, and its directory
\* is as it was.
C7_ExistingNeverOverwritten ==
    \A c \in Commits : (prior[c].exists /\ ~force /\ Finished(c)) =>
      /\ res[c].err # "None"
      /\ res[c].failed # "checkout" => res[c].err = "already exists"
      /\ ~Ran(c, WorkStages)
      /\ outDir[c] = prior[c]

C7_Witness ==
    \E c \in Commits :
      /\ prior[c].exists /\ ~force /\ res[c].err = "already exists"
      /\ outDir[c] = PriorDir

\* C8: with force, for a commit whose output directory existed: the rmtree
\* comes before every configure, build, benchmark or upload stage, processing
\* goes on to the build unless the checkout or the rmtree itself failed, it is
\* never refused as "already exists", and once a stage ran the directory holds
\* no file of the earlier run.
C8_ForceRemovesFirst ==
    \A c \in Commits : (prior[c].exists /\ force /\ Finished(c)) =>
      /\ res[c].err # "already exists"
      /\ res[c].failed \notin {"checkout", "rmtree"} => Ran(c, {"configure", "make"})
      /\ Ran(c, WorkStages) =>
           /\ \A r \in Positions(res[c].trace, {"rmtree"}) :
                \A w \in Positions(res[c].trace, WorkStages) : r < w
           /\ Ran(c, {"rmtree"})
           /\ outDir[c].exists /\ outDir[c].files \cap PriorFiles = {}

C8_Witness ==
    \E c \in Commits :
      /\ prior[c].exists /\ force /\ res[c].err = "None"
      /\ outDir[c].files = BenchmarkFiles

LiveWorktrees == {c \in Commits : wt[c] = "live"}

\* C9 (as claimed): in a parallel run the worktrees created and not yet
\* removed are at most min(max_workers, batch_size).
C9_LiveWorktreesBounded ==
    (ParallelMode /\ batch_size # NoBatch) =>
      Cardinality(LiveWorktrees) <= Min(max_workers, batch_size[1])

\* C10 (as claimed): after the teardown of a batch neither the worktree of
\* any of its commits nor the temporary directory created to hold it exists.
C10_TeardownRemovesAll ==
    ParallelMode =>
      \A c \in Commits : c < i => (wt[c] # "live" /\ ~wtRoot[c])

\* the finally block of the batch of commit c is through
TornDown(c) == c < i

\* no two commits were given the same temporary directory, so none the same
\* worktree path
PathsDistinct ==
    \A c \in Commits : \A d \in Commits :
      (c < d /\ wtPath[c] # 0 /\ wtPath[d] # 0) => wtPath[c] # wtPath[d]

\* C11 (as claimed): once its batch is torn down, the worktree of a commit
\* whose configure, make, install, venv or pip failed is gone, after exactly
\* one removal, and no later commit got its path.
C11_RemovedExactlyOnce ==
    /\ \A c \in Commits : (ToolchainFailed(c) /\ wt[c] # "none" /\ TornDown(c)) =>
         /\ Len(removes[c]) = 1
         /\ wt[c] = "removed"
    /\ PathsDistinct

\* C11 (amended): git worktree remove is run exactly once on the worktree of
\* such a commit, never twice on any; the worktree is gone unless that one
\* command failed; and no later commit got its path.
C11_RemoveRunExactlyOnce ==
    /\ \A c \in Commits : (ToolchainFailed(c) /\ wt[c] # "none" /\ TornDown(c)) =>
         /\ Len(removes[c]) = 1
         /\ removes[c] = <<"ok">> <=> wt[c] = "removed"
         /\ removes[c] = <<"failed">> <=> wt[c] = "live"
    /\ \A c \in Commits : Len(removes[c]) <= 1
    /\ PathsDistinct

C11_Witness ==
    \E c \in Commits : \E d \in Commits :
      /\ ToolchainFailed(c) /\ TornDown(c) /\ removes[c] = <<"ok">> /\ wt[c] = "removed"
      /\ c < d /\ TornDown(d) /\ wtPath[d] # 0 /\ res[d].err = "None"

\* the batch of commit c, counted from 0
BatchOf(c) == (c - 1) \div batch_size[1]

\* something was done for commit c: its temporary directory or worktree was
\* created, or process_commit was submitted for it
Begun(c) == st[c] # "idle" \/ wtRoot[c] \/ wt[c] # "none"

\* C14: in a parallel run, whenever a worktree of a batch exists or a commit
\* of it was submitted, every commit of every earlier batch has finished
\* process_commit and its result was collected.
C14_BatchesInOrder ==
    (ParallelMode /\ pc \notin {"preflight", "validate", "get_commits", "args"}) =>
      \A c \in Commits : \A d \in Commits :
        (Begun(c) /\ BatchOf(d) < BatchOf(c)) =>
          /\ Finished(d)
          /\ st[d] = "collected"
          /\ TornDown(d)

C14_Witness ==
    /\ ParallelMode /\ pc = "par_pool"
    /\ \E c \in Commits : \E d \in Commits :
         /\ st[c] = "running" /\ ~Finished(c)
         /\ BatchOf(d) < BatchOf(c) /\ Failed(d)

\* the commits of a list of (commit, error) or of summary lines are in the
\* order of the input list
InInputOrder(entries, field) ==
    \A j \in 1..Len(entries) : \A j2 \in 1..Len(entries) :
      j < j2 => entries[j][field] < entries[j2][field]

\* C15: with max_workers = 1 at most one commit is being processed, a commit
\* is started only when every commit before it in the list has finished, no
\* worktree exists, and the errors and the summary lines are in input order.
C15_OneAtATimeInOrder ==
    max_workers = 1 =>
      /\ Cardinality(Running) <= 1
      /\ \A c \in Commits : \A d \in Commits :
           (d < c /\ st[c] # "idle") => (Finished(d) /\ st[d] = "collected")
      /\ \A c \in Commits : wt[c] = "none" /\ ~wtRoot[c]
      /\ InInputOrder(errors, 1)
      /\ InInputOrder(summary, 2)

C15_Witness ==
    /\ max_workers = 1 /\ ~local_checkout /\ N = MaxCommits /\ Completed
    /\ Len(errors) > 1 /\ Len(summary) = Len(errors)
    /\ \E c \in Commits : res[c].err = "None"

\* what process_commit returns: None, or one of its error messages
ReturnValues ==
    {"None", "already exists", "Failed to remove existing directory",
     "Error configuring commit", "Error processing commit", "Validation failed",
     "Unexpected error"}

\* the run went through process_commit (not process_commits_local_checkout)
UsesProcessCommit == max_workers > 1 \/ ~local_checkout

\* C16: every call of process_commit ended with a return value, None or an
\* error message, whatever stage failed; a failed stage other than the upload
\* gives an error message; in a parallel run the collected entry is that
\* return value.
C16_NeverRaises ==
    UsesProcessCommit =>
      \A c \in Commits : Finished(c) =>
        /\ res[c].err \in ReturnValues
        /\ res[c].failed \notin {"none", "upload"} => res[c].err # "None"
        /\ (ParallelMode /\ st[c] = "collected") =>
             \/ \E j \in 1..Len(batch_results) : batch_results[j] = <<c, res[c].err>>
             \/ \E j \in 1..Len(all_results) : all_results[j] = <<c, res[c].err>>

C16_Witness ==
    /\ UsesProcessCommit
    /\ \E c \in Commits : res[c].failed = "checkout" /\ res[c].err = "Unexpected error"
    /\ \E c \in Commits : res[c].err = "None"

\* git worktree add failed for commit c: its temporary directory holds no worktree
CreationFailed(c) == wtRoot[c] /\ wt[c] = "none"

\* C17 (as claimed): when the worktree of a commit could not be created, the
\* run still gets to its summary, with the results of the earlier batches in
\* it, and every other commit was processed.
C17_CreationFailureIsLocal ==
    \A c \in Commits : (CreationFailed(c) /\ pc = "exited") =>
      /\ Completed
      /\ \A d \in Commits \ {c} : Finished(d)
      /\ \A j \in 1..Len(all_results) :
           IsError(all_results[j]) =>
             \E l \in 1..Len(summary) : summary[l][2] = all_results[j][1]

\* git worktree remove failed for the worktree of commit c
RemovalFailed(c) == removes[c] = <<"failed">>

ClaimedOrder ==
    <<"validate", "checkout", "configure", "clean", "make", "install", "venv", "pip",
      "benchmarks", "upload">>

IsClaimedStage(stage) == \E j \in 1..Len(ClaimedOrder) : ClaimedOrder[j] = stage

\* the stages a call went through, in the order it started them
StagesOf(c) == SelectSeq(res[c].trace, IsClaimedStage)

\* C19 (as claimed): the stages of a processed commit are a beginning of the
\* claimed order, all of it when the commit is done, and a commit with a
\* failed stage is failed.
C19_StageOrder ==
    UsesProcessCommit =>
      \A c \in Commits : Finished(c) =>
        /\ Len(StagesOf(c)) <= Len(ClaimedOrder)
        /\ StagesOf(c) = SubSeq(ClaimedOrder, 1, Min(Len(StagesOf(c)), Len(ClaimedOrder)))
        /\ res[c].err = "None" => StagesOf(c) = ClaimedOrder
        /\ res[c].failed \in Faults \ {"none", "cleanup"} => res[c].err # "None"

\* the calls of validate_binary_and_environment (GET /api/binaries/{id}, then
\* GET /api/environments/{id}) made while commit c was processed
ValidationCalls(c) == Cardinality(Positions(res[c].trace, {"validate"}))

\* C20 (as claimed): in a parallel run the registration is checked in
\* pre-flight only: no commit's processing calls the validation.
C20_ValidatedOncePerRun ==
    ParallelMode =>
      \A c \in Commits : Finished(c) =>
        /\ validation.binary = "200" /\ validation.environment = "200"
        /\ ValidationCalls(c) = 0

\* the triple the uniqueness is about
Triple(r) == <<r.commit_sha, r.binary_id, r.environment_id>>

\* C12 (as claimed): an upload that passes the checks of the request, for a
\* (commit, binary, environment) that already has a run, is answered with 409
\* and creates no run record and no benchmark-result record.
C12_DuplicateRejected ==
    (last.duplicate /\ last.status # "400") =>
      /\ last.status = "409"
      /\ last.runs_created = 0
      /\ last.results_created = 0

\* C13 (as claimed): the table runs never holds two records for one (commit
\* sha, binary id, environment id).
C13_OneRunPerTriple ==
    \A r1 \in runs : \A r2 \in runs : Triple(r1) = Triple(r2) => r1 = r2

\* the line the summary owes commit c: its success, or its failure reason
SummaryLine(c) ==
    IF res[c].err = "None" THEN <<"Success", c, "None">>
    ELSE <<"Failed", c, res[c].err>>

\* C21 (as claimed): the final summary has one line for every commit of the
\* input list, its success or its failure reason, also when only some of the
\* commits failed.
C21_SummaryListsEveryCommit ==
    Completed =>
      /\ Len(summary) = N
      /\ \A c \in Commits :
           Cardinality({j \in 1..Len(summary) : summary[j] = SummaryLine(c)}) = 1

\* the upload of commit c was attempted, and what became of it
Uploaded(c) == res[c].upload # "none"

\* C22: whatever became of the upload of a commit (accepted, or the ValueError
\* of a rejection, a connection failure or a timeout), from then on its
\* output directory exists and holds exactly the files run_benchmarks wrote.
C22_UploadKeepsFiles ==
    \A c \in Commits : Uploaded(c) =>
      /\ Ran(c, {"upload"})
      /\ outDir[c].exists
      /\ outDir[c].files = BenchmarkFiles

C22_Witness ==
    /\ pc = "exited"
    /\ \E c \in Commits : \E d \in Commits :
         /\ res[c].upload = "Upload failed: detail" /\ outDir[c].files = BenchmarkFiles
         /\ res[d].upload = "ok" /\ outDir[d].files = BenchmarkFiles

\* the commits of the batch of commit c
BatchMates(c) == {d \in Commits : BatchOf(d) = BatchOf(c)}

\* process_commit was submitted for commit c and has not returned
InPool(c) == st[c] \in {"running", "queued"}

\* C23: in a parallel run, whenever git worktree remove has run for a commit
\* or the finally block of a batch is under way, no commit of that batch is
\* running or waiting in the pool; and when the run ended by an exception
\* raised inside the with block, every commit submitted before it has
\* finished and every worktree of the batch has had its removal.
C23_TeardownAfterBatch ==
    ParallelMode =>
      /\ \A c \in Commits : removes[c] # <<>> => \A d \in BatchMates(c) : ~InPool(d)
      /\ pc = "par_cleanup" => \A d \in Commits : ~InPool(d)
      /\ (pc = "exited" /\ poolRaised) =>
           \A c \in Commits :
             /\ st[c] # "idle" => (Finished(c) /\ ~InPool(c))
             /\ wt[c] # "none" => Len(removes[c]) = 1

C23_Witness ==
    /\ pc = "exited" /\ poolRaised
    /\ \E c \in Commits : \E d \in Commits :
         /\ st[c] = "collected" /\ st[d] = "done" /\ Finished(d)
         /\ removes[c] = <<"ok">> /\ removes[d] = <<"ok">>

\* process_commit created a build directory for commit c (mkdtemp, right
\* before configure)
BuildDirCreated(c) == Ran(c, {"configure"})

CleanupFailed(c) == broken = "cleanup" /\ res[c].failed = "none" /\ res[c].err = "None"

Invalid(r) ==
    \/ r.sha = NoSha
    \/ r.binary_id \notin Binaries
    \/ r.environment_id \notin Environments
    \/ \E b \in Binaries : r.binary_id = b /\ ~(RegisteredFlags[b] \subseteq r.flags)

\* C25: an upload is answered with 400 exactly when it fails one of the four
\* checks, and handling it leaves the tables commits, runs and
\* benchmark_results as they were.
C25_RejectedCreatesNothing ==
    [][served' # served =>
         /\ Invalid(last') <=> last'.status = "400"
         /\ last'.status = "400" =>
              /\ UNCHANGED <<commits, runs, benchmark_results>>
              /\ last'.runs_created = 0 /\ last'.results_created = 0]_vars

C25_Witness ==
    /\ last.status = "400" /\ last.flags = {} /\ last.sha # NoSha
    /\ last.binary_id \in Binaries /\ last.environment_id \in Environments
    /\ runs # {} /\ benchmark_results # {}

\* the run a benchmark result belongs to
RunOf(r) == CHOOSE run \in runs : run.run_id = r.run_id

\* C26 (as claimed): the cleanup takes the flamegraph only from results of
\* runs that are not among the max_flamegraphs most recent runs of their own
\* environment: a result of a run that is among them has its flamegraph,
\* whichever environment the later uploads were for.
C26_OtherEnvironmentsKept ==
    \A r \in benchmark_results :
      r.run_id \in KeepRunIds(runs, RunOf(r).environment_id) => r.flamegraph_html

\* the venv directories (mkdtemp, prefix cpython_venv_) that exist after the
\* processing of their commit has ended
LeftoverVenvs == {c \in Commits : Finished(c) /\ res[c].venv = "live"}

\* C27 (as claimed): in every mode, when the processing of a commit has ended,
\* with success or with any failure, the venv directory created for it is
\* removed: no venv directory is left over.
C27_VenvRemoved == LeftoverVenvs = {}

\* C28 (as claimed): a request that is answered with another status than 200
\* leaves the tables commits, runs and benchmark_results as they were before
\* it.
C28_AllOrNothing ==
    [][(served' # served /\ last'.status # "200") =>
         UNCHANGED <<commits, runs, benchmark_results>>]_vars

\* the stages before the benchmarks have completed
EarlyFaults == {"configure", "make", "install", "venv", "pip", "validate"}

\* C29 (as claimed): a commit whose configure, make, install, venv, pip or
\* validation failed has no output directory afterwards, so processing it
\* again without force is not refused as "already exists".
C29_FailedLeavesNoOutputDir ==
    \A c \in Commits : (Finished(c) /\ res[c].failed \in EarlyFaults) =>
      /\ ~outDir[c].exists
      /\ ~RefusesExisting(outDir[c], FALSE)

\* the requests the run has sent to a tracking service so far: the GETs of
\* the pre-flight validation, the GETs of the validation of each commit, the
\* POST of each upload, with the server each went to
RequestsSent ==
    (IF validation.binary # "unasked"
     THEN {<<"preflight", PreflightServer(api_base)>>} ELSE {})
    \cup {<<"validate", CommitValidationServer(api_base)>> :
            c \in {d \in Commits : Ran(d, {"validate"})}}
    \cup {<<"upload", UploadServer(api_base)>> :
            c \in {d \in Commits : Ran(d, {"upload"})}}

\* C30 (as claimed): every request of a run goes to the server given as
\* --api-base: the validation inside the processing of a commit asks the
\* server the pre-flight validation and the upload use.
C30_AllRequestsToApiBase ==
    \A r \in RequestsSent : r[2] = api_base

\* ------------------------------------------------------------- specification
Next ==
    \/ PreflightCheck
    \/ PreflightValidate
    \/ GetCommits
    \/ ValidateArgs
    \/ GetAuthToken
    \/ SeqStart
    \/ SeqFinish
    \/ SeqEnd
    \/ CreateWorktree
    \/ Submit
    \/ \E c \in Commits : WorkerFinish(c)
    \/ PoolExit
    \/ PoolRaise
    \/ PoolWaitExit
    \/ RemoveWorktree
    \/ CleanupEnd
    \/ ParReturn
    \/ LocalPrepare
    \/ LocalStart
    \/ LocalFinish
    \/ LocalEnd
    \/ FinalSummary

Spec == Init /\ [][Next]_vars

SpecFaulty == InitFaulty /\ [][Next]_vars

SpecRemote == InitRemote /\ [][Next]_vars

\* the tracking service on its own: the worker has not started
InitService ==
    /\ Start(1, 0)
    /\ max_workers = 1 /\ batch_size = NoBatch /\ ~local_checkout /\ ~force
    /\ api_base = DefaultServer
    /\ Existing(outDir) = {}

NextService ==
    \/ UploadWorkerRun
    \/ Tick

SpecService == InitService /\ [][NextService]_vars

====
